---- MODULE Spec2Model ----
(***************************************************************************)
(* sfputil (src/sfputil/main.py): the command-line front end over the      *)
(* platform's SFP plugin.  One CLI invocation is a run of the state        *)
(* machine Spec; the two renderers that are pure functions are operators,  *)
(* exercised on their own by SpecRaw and SpecDict.                         *)
(*                                                                         *)
(* A Python str is modelled as a sequence of lexemes (TLA+ strings): the   *)
(* pieces the code concatenates.  "+" and "+=" on str are \o.              *)
(***************************************************************************)
EXTENDS Integers, Sequences, FiniteSets, TLC

VARIABLES
    cmd,                \* the parsed command line (click's arguments)
    porttab,            \* platform_sfputil's port table, read at start-up
    pc,                 \* position of the invocation in its handler
    logical_port_list,  \* the handler's list of logical ports
    port_idx,           \* position of the handler's for loop over that list
    physical_port_list, \* lanes of the logical port being processed
    lane_idx,           \* position of the for loop over physical_port_list
    i,                  \* the handler's 1-based lane counter
    ganged,             \* the handler's ganged flag
    result,             \* the per-port string being built (show eeprom)
    output,             \* show eeprom's output accumulator
    output_table,       \* show presence / show lpmode rows
    out,                \* what click.echo has written to stdout
    exit_code,          \* the process's exit status (-1 while running)
    calls,              \* history: the collaborator calls made, in order
    visits,             \* history: per lane visited, what the handler did
    fpc,                \* pure-function harness: "idle", "call" or "ret"
    arg,                \* pure-function harness: the arguments
    ret                 \* pure-function harness: the returned value

vars == <<cmd, porttab, pc, logical_port_list, port_idx, physical_port_list,
          lane_idx, i, ganged, result, output, output_table, out, exit_code,
          calls, visits, fpc, arg, ret>>

cliVars == <<cmd, porttab, pc, logical_port_list, port_idx,
             physical_port_list, lane_idx, i, ganged, result, output,
             output_table, out, exit_code, calls, visits>>

fnVars == <<fpc, arg, ret>>

----------------------------------------------------------------------------
(* Bounds of the model.                                                    *)

\* Longest raw EEPROM image rendered: two full rows and one more token.
MaxBytes == 33

\* Most keys any one mapping of a nested record holds.
MaxDictLen == 2

\* Most lanes the ganged logical port of the port table resolves to.
MaxLanes == 3

----------------------------------------------------------------------------
(* Python built-ins the code uses.                                         *)

Digits == <<"0", "1", "2", "3", "4", "5", "6", "7", "8", "9">>

\* "%d" % n and str(n) for an int n: decimal digits, "-" first when negative;
\* one lexeme.
RECURSIVE DecNat(_)
DecNat(n) ==
    IF n < 10 THEN Digits[n + 1]
    ELSE DecNat(n \div 10) \o Digits[(n % 10) + 1]

str(n) == IF n < 0 THEN "-" \o DecNat(-n) ELSE DecNat(n)

\* str == int in Python: values of different types never compare equal.
StrEqInt(s, n) == FALSE

\* The text a str stands for: its lexemes joined.
RECURSIVE Join(_)
Join(s) == IF s = <<>> THEN "" ELSE Head(s) \o Join(Tail(s))

\* Number of lexemes of s equal to x.
Count(s, x) == Cardinality({n \in 1..Len(s) : s[n] = x})

----------------------------------------------------------------------------
(* raw_bytes_to_string_pretty                                              *)

\* A plausible slip: the row break replaces the extra space at a multiple of
\* 16 (elif instead of a second if).
RECURSIVE raw_bytes_loop_elif(_, _)
raw_bytes_loop_elif(raw_bytes, n) ==
    IF n >= Len(raw_bytes) THEN <<>>
    ELSE (IF n > 0 /\ (n % 16) = 0 THEN <<"\n">>
          ELSE IF n > 0 /\ (n % 8) = 0 THEN <<" ">>
          ELSE <<>>)
         \o <<raw_bytes[n + 1]>>
         \o <<" ">>
         \o raw_bytes_loop_elif(raw_bytes, n + 1)

\* What the for loop over range(0, len(raw_bytes)) appends to hexstr from
\* index n on (n is Python's 0-based i; raw_bytes[i] is the model's
\* raw_bytes[n + 1]): per iteration the two conditional separators, the token
\* and a space.
RECURSIVE raw_bytes_loop(_, _)
raw_bytes_loop(raw_bytes, n) ==
    IF n >= Len(raw_bytes) THEN <<>>
    ELSE (IF n > 0 /\ (n % 8) = 0 THEN <<" ">> ELSE <<>>)
         \o (IF n > 0 /\ (n % 16) = 0 THEN <<"\n">> ELSE <<>>)
         \o <<raw_bytes[n + 1]>>
         \o <<" ">>
         \o raw_bytes_loop(raw_bytes, n + 1)

raw_bytes_to_string_pretty(raw_bytes) == <<>> \o raw_bytes_loop(raw_bytes, 0)

----------------------------------------------------------------------------
(* Nested records.  A mapping is a function from keys to nodes; a node is  *)
(* a scalar (an int) or a nested mapping (isinstance(val, dict)).          *)

EmptyDict == [k \in {} |-> 0]

Scalar(v) == [isdict |-> FALSE, val |-> v, sub |-> EmptyDict]
SubDict(d) == [isdict |-> TRUE, val |-> 0, sub |-> d]

\* The keys of the model in Python's sort order for str (by code point).
KeyOrder == <<"AwThresholds", "EncodingCodes", "Temperature", "VendorName">>

Keys == {KeyOrder[n] : n \in 1..Len(KeyOrder)}

Rank(key) == CHOOSE n \in 1..Len(KeyOrder) : KeyOrder[n] = key

\* sorted(in_dict)[0]
FirstKey(in_dict) ==
    CHOOSE key \in DOMAIN in_dict :
        \A other \in DOMAIN in_dict : Rank(key) <= Rank(other)

\* {i:in_dict[i] for i in in_dict if i != key}
Without(in_dict, key) == [k \in (DOMAIN in_dict) \ {key} |-> in_dict[k]]

\* A plausible slip: the exclusion test is made at the top level only.
RECURSIVE dict_to_string_comma_separated_toponly(_, _, _, _)
dict_to_string_comma_separated_toponly(in_dict, key_blacklist, elemprefix, first) ==
    IF DOMAIN in_dict = {} THEN <<>>
    ELSE LET key == FirstKey(in_dict)
             val == in_dict[key]
         IN  IF key \in key_blacklist /\ elemprefix = <<>> THEN <<>>
             ELSE (IF ~first THEN <<",">> ELSE <<>>)
                  \o (IF val.isdict
                      THEN dict_to_string_comma_separated_toponly(
                               val.sub, key_blacklist, <<key, ".">>, TRUE)
                      ELSE elemprefix \o <<key>> \o <<":">> \o <<str(val.val)>>)
                  \o dict_to_string_comma_separated_toponly(
                         Without(in_dict, key), key_blacklist, elemprefix, FALSE)

RECURSIVE dict_to_string_comma_separated(_, _, _, _)
dict_to_string_comma_separated(in_dict, key_blacklist, elemprefix, first) ==
    IF DOMAIN in_dict = {} THEN <<>>
    ELSE LET key == FirstKey(in_dict)
             val == in_dict[key]
             output0 == <<>>
         IN  IF key \in key_blacklist THEN <<>>
             ELSE LET output1 == IF ~first THEN output0 \o <<",">> ELSE output0
                      first1 == FALSE
                      output2 ==
                          IF val.isdict
                          THEN output1 \o dict_to_string_comma_separated(
                                   val.sub, key_blacklist, <<key>> \o <<".">>, TRUE)
                          ELSE LET elemname == elemprefix \o <<key>>
                               IN  output1 \o elemname \o <<":">> \o <<str(val.val)>>
                  IN  output2 \o dict_to_string_comma_separated(
                          Without(in_dict, key), key_blacklist, elemprefix, first1)

\* dict_to_string_pretty; '\t' * indent is indent tab lexemes.
Tabs(indent) == [n \in 1..indent |-> "\t"]

RECURSIVE dict_to_string_pretty(_, _)
dict_to_string_pretty(in_dict, indent) ==
    IF DOMAIN in_dict = {} THEN <<>>
    ELSE LET key == FirstKey(in_dict)
             val == in_dict[key]
             output1 ==
                 IF val.isdict
                 THEN Tabs(indent) \o <<key, ":\n">>
                      \o dict_to_string_pretty(val.sub, indent + 1)
                 ELSE Tabs(indent) \o <<key, ": ", str(val.val), "\n">>
         IN  output1 \o dict_to_string_pretty(Without(in_dict, key), indent)

----------------------------------------------------------------------------
(* Port names, the port table and the collaborator (platform_sfputil).     *)

Ethernet0 == <<"Ethernet", "0">>
Ethernet4 == <<"Ethernet", "4">>
Ethernet8 == <<"Ethernet", "8">>
Port7 == <<"7">>
BadPort99 == <<"BadPort", "99">>

\* click passes None for an option that was not given.
None == <<"None">>

PortArgs == {Ethernet0, Ethernet4, Ethernet8, Port7, BadPort99}

\* Lane lists in table order; a lane's physical index differs from its
\* position in the list.
Ascending(n) == [k \in 1..n |-> 4 + k]
Descending(n) == [k \in 1..n |-> 5 + n - k]

LaneLists == {Ascending(n) : n \in 1..MaxLanes} \cup {Descending(n) : n \in 1..MaxLanes}

\* platform_sfputil.logical and its logical-to-physical mapping: Ethernet0 is
\* ganged when its list holds more than one lane, Ethernet4 is a single lane.
PortTables ==
    {[logical |-> <<Ethernet0, Ethernet4>>,
      logical_to_physical |-> (Ethernet0 :> lanes) @@ (Ethernet4 :> <<2>>)] :
        lanes \in LaneLists}

\* port_name.startswith("Ethernet")
StartsWithEthernet(port_name) == Len(port_name) > 0 /\ port_name[1] = "Ethernet"

\* int(port_name): defined for a decimal literal, ValueError otherwise.
IsDecimal(port_name) ==
    Len(port_name) = 1 /\ \E n \in 0..9 : Digits[n + 1] = port_name[1]

int(port_name) == CHOOSE n \in 0..9 : Digits[n + 1] = port_name[1]

\* One collaborator call, as recorded in the history.
Call(op, port, name, res) == [op |-> op, port |-> port, name |-> name, res |-> res]

\* What a hardware call that answers True/False may do.
BoolOutcomes == {"True", "False", "NotImplementedError"}

\* str(platform_sfputil.logical): the repr of a list of str.
RECURSIVE ReprItems(_)
ReprItems(names) ==
    IF names = <<>> THEN <<>>
    ELSE <<"'">> \o Head(names) \o <<"'">>
         \o (IF Len(names) > 1 THEN <<", ">> ELSE <<>>)
         \o ReprItems(Tail(names))

ListRepr(names) == <<"[">> \o ReprItems(names) \o <<"]">>

\* click.echo(message): the message and a newline.
echo(message) == message \o <<"\n">>

InvalidPortMessage(port) == <<"Error: invalid port '">> \o port \o <<"'\n">>

NoPhysicalPortsMessage(port) ==
    <<"Error: No physical ports found for logical port '">> \o port \o <<"'">>

NotImplementedMessage ==
    <<"This functionality is currently not implemented for this platform">>

print_all_valid_port_values ==
    echo(<<"Valid values for port: ">> \o ListRepr(porttab.logical) \o <<"\n">>)

get_sfp_eeprom_status_string(port, port_sfp_eeprom_status) ==
    IF port_sfp_eeprom_status
    THEN port \o <<": SFP EEPROM detected">>
    ELSE port \o <<": SFP EEPROM not detected">>

\* A plausible slip: the ganged flag is not consulted.
get_physical_port_name_always_ganged(logical_port, physical_port, is_ganged) ==
    IF StrEqInt(logical_port, physical_port) THEN logical_port
    ELSE logical_port \o <<":", str(physical_port), " (ganged)">>

get_physical_port_name(logical_port, physical_port, is_ganged) ==
    IF StrEqInt(logical_port, physical_port) THEN logical_port
    ELSE IF is_ganged THEN logical_port \o <<":", str(physical_port), " (ganged)">>
    ELSE logical_port

\* logical_port_name_to_physical_port_list: the list (or None), what it echoes,
\* the collaborator calls it makes, and whether int() raised.
logical_port_name_to_physical_port_list(port_name) ==
    IF StartsWithEthernet(port_name)
    THEN IF port_name \in DOMAIN porttab.logical_to_physical
         THEN [isnone |-> FALSE, raised |-> FALSE,
               list |-> porttab.logical_to_physical[port_name],
               echoed |-> <<>>,
               calls |-> <<Call("is_logical_port", 0, port_name, "True"),
                           Call("get_logical_to_physical", 0, port_name, "list")>>]
         ELSE [isnone |-> TRUE, raised |-> FALSE, list |-> <<>>,
               echoed |-> echo(<<"Error: Invalid port '">> \o port_name \o <<"'">>),
               calls |-> <<Call("is_logical_port", 0, port_name, "False")>>]
    ELSE IF IsDecimal(port_name)
         THEN [isnone |-> FALSE, raised |-> FALSE, list |-> <<int(port_name)>>,
               echoed |-> <<>>, calls |-> <<>>]
         ELSE [isnone |-> FALSE, raised |-> TRUE, list |-> <<>>,
               echoed |-> <<>>, calls |-> <<>>]

----------------------------------------------------------------------------
(* EEPROM contents the collaborator may return.                            *)

NoDict == EmptyDict

\* eeprom_dict: 'interface' -> 'data' always there; 'dom' and its 'data' optional.
EepromDict(iface_data, has_dom, dom_has_data, dom_data) ==
    [interface |-> [data |-> iface_data],
     has_dom |-> has_dom, dom_has_data |-> dom_has_data,
     dom |-> [data |-> dom_data]]

EepromDicts ==
    {EepromDict(("VendorName" :> Scalar(7)), FALSE, FALSE, NoDict),
     EepromDict(("VendorName" :> Scalar(7)), TRUE, TRUE,
                ("Temperature" :> Scalar(70))),
     EepromDict(("Temperature" :> SubDict("VendorName" :> Scalar(-5)))
                    @@ ("VendorName" :> Scalar(7)),
                TRUE, FALSE, NoDict)}

\* The two-character lowercase hex token of a byte.
HexDigits == <<"0", "1", "2", "3", "4", "5", "6", "7", "8", "9",
               "a", "b", "c", "d", "e", "f">>

Tok(b) == HexDigits[(b \div 16) + 1] \o HexDigits[(b % 16) + 1]

\* An image of n tokens: byte k is start + k * step (mod 256).
Image(n, start, step) == [k \in 1..n |-> Tok((start + k * step) % 256)]

\* get_eeprom_raw's answers in a CLI run.
EepromRaws == {Image(2, 0, 1), Image(17, 0, 1)}

\* The option defaults of show eeprom's one-line mode.
ifdata_out_blacklist ==
    {"EncodingCodes", "ExtIdentOfTypeOfTransceiver",
     "NominalSignallingRate(UnitsOf100Mbd)"}

domdata_out_blacklist == {"AwThresholds", "StatusControl"}

----------------------------------------------------------------------------
(* The invocation.                                                         *)

Command(name, port, dump_dom, oneline, raw) ==
    [name |-> name, port |-> port, dump_dom |-> dump_dom,
     oneline |-> oneline, raw |-> raw]

Commands ==
    {Command("show eeprom", p, d, o, r) :
        p \in PortArgs \cup {None}, d \in BOOLEAN, o \in BOOLEAN, r \in BOOLEAN}
    \cup {Command(n, p, FALSE, FALSE, FALSE) :
        n \in {"show presence", "show lpmode"}, p \in PortArgs \cup {None}}
    \cup {Command(n, p, FALSE, FALSE, FALSE) :
        n \in {"lpmode on", "lpmode off", "reset"}, p \in PortArgs}

Init ==
    /\ cmd \in Commands
    /\ porttab \in PortTables
    /\ pc = "start"
    /\ logical_port_list = <<>>
    /\ port_idx = 1
    /\ physical_port_list = <<>>
    /\ lane_idx = 1
    /\ i = 1
    /\ ganged = FALSE
    /\ result = <<>>
    /\ output = <<>>
    /\ output_table = <<>>
    /\ out = <<>>
    /\ exit_code = -1
    /\ calls = <<>>
    /\ visits = <<>>
    /\ fpc = "idle"
    /\ arg = <<>>
    /\ ret = <<>>

----------------------------------------------------------------------------
(* Steps shared by the handlers' text.                                     *)

\* sys.exit(code) after echoing text.
Exit(code, text) ==
    /\ out' = out \o text
    /\ exit_code' = code
    /\ pc' = "exit"

\* An exception no handler catches: Python prints the traceback on stderr and
\* the process exits with status 1; nothing more reaches stdout.
Uncaught ==
    /\ exit_code' = 1
    /\ pc' = "uncaught"
    /\ out' = out

\* One lane visit, as recorded in the history.
Visit(fn, made, port_name, block) ==
    [fn |-> fn, logical |-> logical_port_list[port_idx], pos |-> lane_idx,
     physical |-> physical_port_list[lane_idx], count |-> Len(physical_port_list),
     made |-> made, port_name |-> port_name, block |-> block]

\* A plausible slip: the data is fetched first and presence checked afterwards.
FetchCallsFetchFirst(fetch_op, physical_port, presence, fetched) ==
    <<Call(fetch_op, physical_port, <<>>, fetched),
      Call("get_presence", physical_port, <<>>, presence)>>

\* The calls of one show-eeprom lane visit for the answers chosen: get_presence,
\* then the data fetch when presence answered True.
FetchCalls(fetch_op, physical_port, presence, fetched) ==
    <<Call("get_presence", physical_port, <<>>, presence)>>
    \o (IF presence = "True"
        THEN <<Call(fetch_op, physical_port, <<>>, fetched)>>
        ELSE <<>>)

\* Whether a show-eeprom lane visit ends in an exception.
FetchRaises(presence, fetched) ==
    presence = "NotImplementedError"
    \/ (presence = "True" /\ fetched = "NotImplementedError")

\* The answers of get_eeprom_dict / get_eeprom_raw: a value, None, or the
\* exception.
FetchOutcomes == {"value", "None", "NotImplementedError"}

----------------------------------------------------------------------------
(* show eeprom                                                             *)

\* eeprom(): the port list, up to the branch on --raw / --oneline.
eeprom ==
    /\ pc = "start"
    /\ cmd.name = "show eeprom"
    /\ IF cmd.port = None
       THEN /\ logical_port_list' = porttab.logical
            /\ pc' = "eeprom_loop"
            /\ UNCHANGED <<out, exit_code, calls>>
       ELSE \E valid \in {0, 1} :
            /\ calls' = calls \o <<Call("is_valid_sfputil_port", 0, cmd.port, str(valid))>>
            /\ IF valid = 0
               THEN /\ Exit(4, echo(InvalidPortMessage(cmd.port))
                                \o print_all_valid_port_values)
                    /\ UNCHANGED logical_port_list
               ELSE /\ logical_port_list' = <<cmd.port>>
                    /\ pc' = "eeprom_loop"
                    /\ UNCHANGED <<out, exit_code>>
    /\ UNCHANGED <<cmd, porttab, port_idx, physical_port_list, lane_idx, i,
                   ganged, result, output, output_table, visits>>
    /\ UNCHANGED fnVars

\* The head of each port_eeprom_data_* function: result, ganged and i are
\* initialised and the port is resolved.  lanes_pc is where the lane loop runs;
\* tail is what eeprom() appends after the function's return value.
EepromEntry(lanes_pc, tail) ==
    /\ pc = "eeprom_loop"
    /\ port_idx <= Len(logical_port_list)
    /\ LET logical_port_name == logical_port_list[port_idx]
           r == logical_port_name_to_physical_port_list(logical_port_name)
       IN  /\ calls' = calls \o r.calls
           /\ IF r.raised
              THEN /\ Uncaught
                   /\ UNCHANGED <<physical_port_list, ganged, port_idx, output>>
              ELSE IF r.isnone
              THEN /\ out' = out \o r.echoed
                             \o echo(NoPhysicalPortsMessage(logical_port_name))
                   /\ output' = output \o <<>> \o tail
                   /\ port_idx' = port_idx + 1
                   /\ UNCHANGED <<physical_port_list, ganged, pc, exit_code>>
              ELSE /\ physical_port_list' = r.list
                   /\ ganged' = (Len(r.list) > 1)
                   /\ pc' = lanes_pc
                   /\ UNCHANGED <<out, exit_code, port_idx, output>>
    /\ result' = <<>>
    /\ i' = 1
    /\ lane_idx' = 1
    /\ UNCHANGED <<cmd, porttab, logical_port_list, output_table, visits>>
    /\ UNCHANGED fnVars

\* port_eeprom_data_string_pretty, lines 140-151.
port_eeprom_data_string_pretty_entry ==
    /\ ~cmd.raw /\ ~cmd.oneline
    /\ EepromEntry("pretty_lanes", <<>>)

\* port_eeprom_data_string_pretty_oneline, lines 185-199.
port_eeprom_data_string_pretty_oneline_entry ==
    /\ ~cmd.raw /\ cmd.oneline
    /\ EepromEntry("oneline_lanes", <<>>)

\* port_eeprom_data_raw_string_pretty, lines 228-239.
port_eeprom_data_raw_string_pretty_entry ==
    /\ cmd.raw
    /\ EepromEntry("raw_lanes", <<"\n">>)

\* The block port_eeprom_data_string_pretty appends for one lane.
PrettyBlock(port_name, has_dict, eeprom_dict) ==
    (IF has_dict
     THEN get_sfp_eeprom_status_string(port_name, TRUE) \o <<"\n">>
          \o dict_to_string_pretty(eeprom_dict.interface.data, 1)
          \o (IF cmd.dump_dom /\ eeprom_dict.has_dom /\ eeprom_dict.dom_has_data
              THEN dict_to_string_pretty(eeprom_dict.dom.data, 1)
              ELSE <<>>)
     ELSE get_sfp_eeprom_status_string(port_name, FALSE) \o <<"\n">>)
    \o <<"\n">>

\* A plausible repair: the return statement follows the loop, so every lane is
\* visited before the function returns.
port_eeprom_data_string_pretty_lane_all ==
    /\ pc = "pretty_lanes"
    /\ lane_idx <= Len(physical_port_list)
    /\ \E presence \in BoolOutcomes, fetched \in FetchOutcomes, eeprom_dict \in EepromDicts :
       LET physical_port == physical_port_list[lane_idx]
           port_name == get_physical_port_name(logical_port_list[port_idx], i, ganged)
           made == FetchCalls("get_eeprom_dict", physical_port, presence, fetched)
           has_dict == presence = "True" /\ fetched = "value"
           block == PrettyBlock(port_name, has_dict, eeprom_dict)
       IN  /\ calls' = calls \o made
           /\ IF FetchRaises(presence, fetched)
              THEN /\ Uncaught
                   /\ visits' = visits \o <<Visit("pretty", made, port_name, <<>>)>>
                   /\ UNCHANGED <<result, i, lane_idx, output, port_idx>>
              ELSE /\ result' = result \o block
                   /\ i' = i + 1
                   /\ lane_idx' = lane_idx + 1
                   /\ visits' = visits \o <<Visit("pretty", made, port_name, block)>>
                   /\ IF lane_idx = Len(physical_port_list)
                      THEN /\ output' = output \o result'
                           /\ port_idx' = port_idx + 1
                           /\ pc' = "eeprom_loop"
                      ELSE UNCHANGED <<output, port_idx, pc>>
                   /\ UNCHANGED <<out, exit_code>>
    /\ UNCHANGED <<cmd, porttab, logical_port_list, physical_port_list, ganged,
                   output_table>>
    /\ UNCHANGED fnVars

\* One iteration of port_eeprom_data_string_pretty's lane loop: the return
\* statement is inside the loop, so the function returns after it.
port_eeprom_data_string_pretty_lane ==
    /\ pc = "pretty_lanes"
    /\ lane_idx <= Len(physical_port_list)
    /\ \E presence \in BoolOutcomes, fetched \in FetchOutcomes, eeprom_dict \in EepromDicts :
       LET physical_port == physical_port_list[lane_idx]
           port_name == get_physical_port_name(logical_port_list[port_idx], i, ganged)
           made == FetchCalls("get_eeprom_dict", physical_port, presence, fetched)
           has_dict == presence = "True" /\ fetched = "value"
           block == PrettyBlock(port_name, has_dict, eeprom_dict)
       IN  /\ calls' = calls \o made
           /\ IF FetchRaises(presence, fetched)
              THEN /\ Uncaught
                   /\ visits' = visits \o <<Visit("pretty", made, port_name, <<>>)>>
                   /\ UNCHANGED <<result, i, lane_idx, output, port_idx>>
              ELSE /\ result' = result \o block
                   /\ i' = i + 1
                   /\ lane_idx' = lane_idx + 1
                   /\ visits' = visits \o <<Visit("pretty", made, port_name, block)>>
                   /\ output' = output \o result'
                   /\ port_idx' = port_idx + 1
                   /\ pc' = "eeprom_loop"
                   /\ UNCHANGED <<out, exit_code>>
    /\ UNCHANGED <<cmd, porttab, logical_port_list, physical_port_list, ganged,
                   output_table>>
    /\ UNCHANGED fnVars

\* The text port_eeprom_data_string_pretty_oneline appends for one lane.
OnelineBlock(port_name, has_dict, eeprom_dict) ==
    (IF has_dict
     THEN <<"port:">> \o port_name \o <<",">>
          \o dict_to_string_comma_separated(
                 eeprom_dict.interface.data, ifdata_out_blacklist, <<>>, TRUE)
          \o (IF cmd.dump_dom /\ eeprom_dict.has_dom /\ eeprom_dict.dom_has_data
              THEN dict_to_string_comma_separated(
                       eeprom_dict.dom.data, domdata_out_blacklist, <<>>, TRUE)
              ELSE <<>>)
     ELSE <<>>)
    \o <<"\n">>

\* One iteration of port_eeprom_data_string_pretty_oneline's lane loop.
port_eeprom_data_string_pretty_oneline_lane ==
    /\ pc = "oneline_lanes"
    /\ lane_idx <= Len(physical_port_list)
    /\ \E presence \in BoolOutcomes, fetched \in FetchOutcomes, eeprom_dict \in EepromDicts :
       LET physical_port == physical_port_list[lane_idx]
           made == FetchCalls("get_eeprom_dict", physical_port, presence, fetched)
           has_dict == presence = "True" /\ fetched = "value"
           port_name == IF has_dict
                        THEN get_physical_port_name(logical_port_list[port_idx], i, ganged)
                        ELSE <<>>
           block == OnelineBlock(port_name, has_dict, eeprom_dict)
       IN  /\ calls' = calls \o made
           /\ IF FetchRaises(presence, fetched)
              THEN /\ Uncaught
                   /\ visits' = visits \o <<Visit("oneline", made, <<>>, <<>>)>>
                   /\ UNCHANGED <<result, i, lane_idx>>
              ELSE /\ result' = result \o block
                   /\ i' = i + 1
                   /\ lane_idx' = lane_idx + 1
                   /\ visits' = visits \o <<Visit("oneline", made, port_name, block)>>
                   /\ UNCHANGED <<out, exit_code, pc>>
    /\ UNCHANGED <<cmd, porttab, logical_port_list, port_idx, physical_port_list,
                   ganged, output, output_table>>
    /\ UNCHANGED fnVars

\* The block port_eeprom_data_raw_string_pretty appends for one lane.
RawBlock(port_name, has_raw, eeprom_raw) ==
    (IF ~has_raw
     THEN get_sfp_eeprom_status_string(port_name, FALSE) \o <<"\n">>
     ELSE get_sfp_eeprom_status_string(port_name, TRUE) \o <<"\n">>
          \o raw_bytes_to_string_pretty(eeprom_raw))
    \o <<"\n">>

\* One iteration of port_eeprom_data_raw_string_pretty's lane loop.
port_eeprom_data_raw_string_pretty_lane ==
    /\ pc = "raw_lanes"
    /\ lane_idx <= Len(physical_port_list)
    /\ \E presence \in BoolOutcomes, fetched \in FetchOutcomes, eeprom_raw \in EepromRaws :
       LET physical_port == physical_port_list[lane_idx]
           port_name == get_physical_port_name(logical_port_list[port_idx], i, ganged)
           made == FetchCalls("get_eeprom_raw", physical_port, presence, fetched)
           has_raw == presence = "True" /\ fetched = "value"
           block == RawBlock(port_name, has_raw, eeprom_raw)
       IN  /\ calls' = calls \o made
           /\ IF FetchRaises(presence, fetched)
              THEN /\ Uncaught
                   /\ visits' = visits \o <<Visit("raw", made, port_name, <<>>)>>
                   /\ UNCHANGED <<result, i, lane_idx>>
              ELSE /\ result' = result \o block
                   /\ i' = i + 1
                   /\ lane_idx' = lane_idx + 1
                   /\ visits' = visits \o <<Visit("raw", made, port_name, block)>>
                   /\ UNCHANGED <<out, exit_code, pc>>
    /\ UNCHANGED <<cmd, porttab, logical_port_list, port_idx, physical_port_list,
                   ganged, output, output_table>>
    /\ UNCHANGED fnVars

\* The lane loop of the one-line or raw function is exhausted: return result;
\* eeprom() appends it (and, in raw mode, a newline) to output.
EepromReturn(lanes_pc, tail) ==
    /\ pc = lanes_pc
    /\ lane_idx > Len(physical_port_list)
    /\ output' = output \o result \o tail
    /\ port_idx' = port_idx + 1
    /\ pc' = "eeprom_loop"
    /\ UNCHANGED <<cmd, porttab, logical_port_list, physical_port_list, lane_idx,
                   i, ganged, result, output_table, out, exit_code, calls, visits>>
    /\ UNCHANGED fnVars

port_eeprom_data_string_pretty_oneline_return == EepromReturn("oneline_lanes", <<>>)

port_eeprom_data_raw_string_pretty_return == EepromReturn("raw_lanes", <<"\n">>)

\* eeprom(): click.echo(output) once every port is done.
eeprom_echo ==
    /\ pc = "eeprom_loop"
    /\ port_idx > Len(logical_port_list)
    /\ out' = out \o echo(output)
    /\ exit_code' = 0
    /\ pc' = "done"
    /\ UNCHANGED <<cmd, porttab, logical_port_list, port_idx, physical_port_list,
                   lane_idx, i, ganged, result, output, output_table, calls, visits>>
    /\ UNCHANGED fnVars

----------------------------------------------------------------------------
(* show presence, show lpmode                                              *)

\* tabulate(output_table, table_header, tablefmt="simple"), without the column
\* padding: the header row, then one row per entry.
RECURSIVE TableRows(_)
TableRows(table) ==
    IF table = <<>> THEN <<>>
    ELSE <<"\n">> \o table[1].port_name \o <<"  ", table[1].status>>
         \o TableRows(Tail(table))

tabulate(table, table_header) ==
    <<table_header[1], "  ", table_header[2]>> \o TableRows(table)

\* The head of presence() and of lpmode(): the port list.
ShowStart(name, loop_pc) ==
    /\ pc = "start"
    /\ cmd.name = name
    /\ IF cmd.port = None
       THEN /\ logical_port_list' = porttab.logical
            /\ pc' = loop_pc
            /\ UNCHANGED <<out, exit_code, calls>>
       ELSE \E valid \in {0, 1} :
            /\ calls' = calls \o <<Call("is_valid_sfputil_port", 0, cmd.port, str(valid))>>
            /\ IF valid = 0
               THEN /\ Exit(4, echo(InvalidPortMessage(cmd.port))
                                \o print_all_valid_port_values)
                    /\ UNCHANGED logical_port_list
               ELSE /\ logical_port_list' = <<cmd.port>>
                    /\ pc' = loop_pc
                    /\ UNCHANGED <<out, exit_code>>
    /\ UNCHANGED <<cmd, porttab, port_idx, physical_port_list, lane_idx, i,
                   ganged, result, output, output_table, visits>>
    /\ UNCHANGED fnVars

\* A plausible slip: the rejected port is reported but the handler goes on.
presence_no_exit ==
    /\ pc = "start"
    /\ cmd.name = "show presence"
    /\ IF cmd.port = None
       THEN /\ logical_port_list' = porttab.logical
            /\ UNCHANGED <<out, calls>>
       ELSE \E valid \in {0, 1} :
            /\ calls' = calls \o <<Call("is_valid_sfputil_port", 0, cmd.port, str(valid))>>
            /\ logical_port_list' = <<cmd.port>>
            /\ out' = IF valid = 0
                      THEN out \o echo(InvalidPortMessage(cmd.port))
                               \o print_all_valid_port_values
                      ELSE out
    /\ pc' = "presence_loop"
    /\ UNCHANGED <<cmd, porttab, port_idx, physical_port_list, lane_idx, i,
                   ganged, result, output, output_table, visits, exit_code>>
    /\ UNCHANGED fnVars

\* presence(), lines 377-392.
presence == ShowStart("show presence", "presence_loop")

\* lpmode() of the show group, lines 428-443.
lpmode == ShowStart("show lpmode", "lpmode_loop")

\* The top of the loop over logical ports: ganged and i are reset and the port
\* is resolved; a None list ends the handler (return) without the table.
ShowResolve(loop_pc, lanes_pc) ==
    /\ pc = loop_pc
    /\ port_idx <= Len(logical_port_list)
    /\ LET logical_port_name == logical_port_list[port_idx]
           r == logical_port_name_to_physical_port_list(logical_port_name)
       IN  /\ calls' = calls \o r.calls
           /\ IF r.raised
              THEN /\ Uncaught
                   /\ UNCHANGED <<physical_port_list, ganged>>
              ELSE IF r.isnone
              THEN /\ out' = out \o r.echoed
                             \o echo(NoPhysicalPortsMessage(logical_port_name))
                   /\ exit_code' = 0
                   /\ pc' = "done"
                   /\ UNCHANGED <<physical_port_list, ganged>>
              ELSE /\ physical_port_list' = r.list
                   /\ ganged' = (Len(r.list) > 1)
                   /\ pc' = lanes_pc
                   /\ UNCHANGED <<out, exit_code>>
    /\ i' = 1
    /\ lane_idx' = 1
    /\ UNCHANGED <<cmd, porttab, logical_port_list, port_idx, result, output,
                   output_table, visits>>
    /\ UNCHANGED fnVars

presence_resolve == ShowResolve("presence_loop", "presence_lanes")

lpmode_resolve == ShowResolve("lpmode_loop", "lpmode_lanes")

\* One iteration of the lane loop of presence() / lpmode(): the call, guarded
\* by try/except NotImplementedError, and the table row.  After the last lane
\* the loop over logical ports continues.
ShowLane(fn, op, loop_pc, lanes_pc, yes, no) ==
    /\ pc = lanes_pc
    /\ lane_idx <= Len(physical_port_list)
    /\ \E answer \in BoolOutcomes :
       LET physical_port == physical_port_list[lane_idx]
           port_name == get_physical_port_name(logical_port_list[port_idx], i, ganged)
           made == <<Call(op, physical_port, <<>>, answer)>>
           row == [port_name |-> port_name,
                   status |-> IF answer = "True" THEN yes ELSE no]
       IN  /\ calls' = calls \o made
           /\ IF answer = "NotImplementedError"
              THEN /\ Exit(5, echo(NotImplementedMessage))
                   /\ visits' = visits \o <<Visit(fn, made, port_name, <<>>)>>
                   /\ UNCHANGED <<output_table, i, lane_idx, port_idx>>
              ELSE /\ output_table' = output_table \o <<row>>
                   /\ visits' = visits \o
                          <<Visit(fn, made, port_name, port_name \o <<"  ", row.status>>)>>
                   /\ i' = i + 1
                   /\ lane_idx' = lane_idx + 1
                   /\ IF lane_idx = Len(physical_port_list)
                      THEN pc' = loop_pc /\ port_idx' = port_idx + 1
                      ELSE UNCHANGED <<pc, port_idx>>
                   /\ UNCHANGED <<out, exit_code>>
    /\ UNCHANGED <<cmd, porttab, logical_port_list, physical_port_list, ganged,
                   result, output>>
    /\ UNCHANGED fnVars

presence_lane ==
    ShowLane("presence", "get_presence", "presence_loop", "presence_lanes",
             "Present", "Not present")

lpmode_lane ==
    ShowLane("lpmode", "get_low_power_mode", "lpmode_loop", "lpmode_lanes",
             "On", "Off")

\* click.echo(tabulate(...)) once every port is done.
ShowEcho(loop_pc, table_header) ==
    /\ pc = loop_pc
    /\ port_idx > Len(logical_port_list)
    /\ out' = out \o echo(tabulate(output_table, table_header))
    /\ exit_code' = 0
    /\ pc' = "done"
    /\ UNCHANGED <<cmd, porttab, logical_port_list, port_idx, physical_port_list,
                   lane_idx, i, ganged, result, output, output_table, calls, visits>>
    /\ UNCHANGED fnVars

presence_echo == ShowEcho("presence_loop", <<"Port", "Presence">>)

lpmode_echo == ShowEcho("lpmode_loop", <<"Port", "Low-power Mode">>)

----------------------------------------------------------------------------
(* lpmode on, lpmode off, reset                                            *)

\* The head of set_lpmode() and of reset(): the validity check, then the
\* resolution of the port; a None list ends the command (return).
SetStart(names, lanes_pc) ==
    /\ pc = "start"
    /\ cmd.name \in names
    /\ \E valid \in {0, 1} :
       LET r == logical_port_name_to_physical_port_list(cmd.port)
           checked == <<Call("is_valid_sfputil_port", 0, cmd.port, str(valid))>>
       IN  IF valid = 0
           THEN /\ calls' = calls \o checked
                /\ Exit(4, echo(InvalidPortMessage(cmd.port))
                            \o print_all_valid_port_values)
                /\ UNCHANGED <<physical_port_list, ganged, logical_port_list>>
           ELSE /\ calls' = calls \o checked \o r.calls
                /\ IF r.raised
                   THEN /\ Uncaught
                        /\ UNCHANGED <<physical_port_list, ganged, logical_port_list>>
                   ELSE IF r.isnone
                   THEN /\ out' = out \o r.echoed
                                  \o echo(NoPhysicalPortsMessage(cmd.port))
                        /\ exit_code' = 0
                        /\ pc' = "done"
                        /\ UNCHANGED <<physical_port_list, ganged, logical_port_list>>
                   ELSE /\ physical_port_list' = r.list
                        /\ logical_port_list' = <<cmd.port>>
                        /\ ganged' = (Len(r.list) > 1)
                        /\ pc' = lanes_pc
                        /\ UNCHANGED <<out, exit_code>>
    /\ UNCHANGED <<cmd, porttab, port_idx, lane_idx, i, result, output,
                   output_table, visits>>
    /\ UNCHANGED fnVars

\* set_lpmode(logical_port, enable), lines 484-499; on and off call it.
set_lpmode == SetStart({"lpmode on", "lpmode off"}, "set_lpmode_lanes")

\* reset(port_name), lines 539-555.
reset == SetStart({"reset"}, "reset_lanes")

\* A plausible slip: the not-implemented answer is reported but the loop goes
\* on to the next lane.
SetLaneContinue(fn, op, lanes_pc, announce) ==
    /\ pc = lanes_pc
    /\ lane_idx <= Len(physical_port_list)
    /\ \E answer \in BoolOutcomes :
       LET physical_port == physical_port_list[lane_idx]
           port_name == get_physical_port_name(cmd.port, i, ganged)
           made == <<Call(op, physical_port, <<>>, answer)>>
           line == announce \o port_name \o <<"... ">>
           verdict == IF answer = "NotImplementedError" THEN echo(NotImplementedMessage)
                      ELSE IF answer = "True" THEN echo(<<"OK">>)
                      ELSE echo(<<"Failed">>)
       IN  /\ calls' = calls \o made
           /\ out' = out \o line \o verdict
           /\ visits' = visits \o <<Visit(fn, made, port_name, line \o verdict)>>
           /\ i' = i + 1
           /\ lane_idx' = lane_idx + 1
           /\ UNCHANGED <<pc, exit_code>>
    /\ UNCHANGED <<cmd, porttab, logical_port_list, port_idx, physical_port_list,
                   ganged, result, output, output_table>>
    /\ UNCHANGED fnVars

\* One iteration of the lane loop of set_lpmode() / reset(): the announcement
\* (nl=False), the call guarded by try/except NotImplementedError, the verdict.
SetLane(fn, op, lanes_pc, announce) ==
    /\ pc = lanes_pc
    /\ lane_idx <= Len(physical_port_list)
    /\ \E answer \in BoolOutcomes :
       LET physical_port == physical_port_list[lane_idx]
           port_name == get_physical_port_name(cmd.port, i, ganged)
           made == <<Call(op, physical_port, <<>>, answer)>>
           line == announce \o port_name \o <<"... ">>
       IN  /\ calls' = calls \o made
           /\ IF answer = "NotImplementedError"
              THEN /\ Exit(5, line \o echo(NotImplementedMessage))
                   /\ visits' = visits \o <<Visit(fn, made, port_name, line)>>
                   /\ UNCHANGED <<i, lane_idx>>
              ELSE LET verdict == IF answer = "True" THEN echo(<<"OK">>)
                                  ELSE echo(<<"Failed">>)
                   IN  /\ out' = out \o line \o verdict
                       /\ visits' = visits \o
                              <<Visit(fn, made, port_name, line \o verdict)>>
                       /\ i' = i + 1
                       /\ lane_idx' = lane_idx + 1
                       /\ UNCHANGED <<pc, exit_code>>
    /\ UNCHANGED <<cmd, porttab, logical_port_list, port_idx, physical_port_list,
                   ganged, result, output, output_table>>
    /\ UNCHANGED fnVars

set_lpmode_lane ==
    SetLane("set_lpmode", "set_low_power_mode", "set_lpmode_lanes",
            <<IF cmd.name = "lpmode on" THEN "Enabling" ELSE "Disabling",
              " low-power mode for port ">>)

reset_lane == SetLane("reset", "reset", "reset_lanes", <<"Resetting port ">>)

\* The lane loop is exhausted: the command returns.
SetReturn(lanes_pc) ==
    /\ pc = lanes_pc
    /\ lane_idx > Len(physical_port_list)
    /\ exit_code' = 0
    /\ pc' = "done"
    /\ UNCHANGED <<cmd, porttab, logical_port_list, port_idx, physical_port_list,
                   lane_idx, i, ganged, result, output, output_table, out, calls,
                   visits>>
    /\ UNCHANGED fnVars

set_lpmode_return == SetReturn("set_lpmode_lanes")

reset_return == SetReturn("reset_lanes")

----------------------------------------------------------------------------
(* The specification of one invocation.                                    *)

Next ==
    \/ eeprom
    \/ port_eeprom_data_string_pretty_entry
    \/ port_eeprom_data_string_pretty_lane
    \/ port_eeprom_data_string_pretty_oneline_entry
    \/ port_eeprom_data_string_pretty_oneline_lane
    \/ port_eeprom_data_string_pretty_oneline_return
    \/ port_eeprom_data_raw_string_pretty_entry
    \/ port_eeprom_data_raw_string_pretty_lane
    \/ port_eeprom_data_raw_string_pretty_return
    \/ eeprom_echo
    \/ presence
    \/ presence_resolve
    \/ presence_lane
    \/ presence_echo
    \/ lpmode
    \/ lpmode_resolve
    \/ lpmode_lane
    \/ lpmode_echo
    \/ set_lpmode
    \/ set_lpmode_lane
    \/ set_lpmode_return
    \/ reset
    \/ reset_lane
    \/ reset_return

Spec == Init /\ [][Next]_vars

----------------------------------------------------------------------------
(* The two pure renderers on their own: Init draws the arguments, the one  *)
(* action applies the function.  No invocation is running.                 *)

NoInvocation ==
    /\ cmd = Command("version", None, FALSE, FALSE, FALSE)
    /\ porttab = [logical |-> <<Ethernet0, Ethernet4>>,
                  logical_to_physical |-> (Ethernet0 :> <<5, 6>>) @@ (Ethernet4 :> <<2>>)]
    /\ pc = "idle"
    /\ logical_port_list = <<>>
    /\ port_idx = 1
    /\ physical_port_list = <<>>
    /\ lane_idx = 1
    /\ i = 1
    /\ ganged = FALSE
    /\ result = <<>>
    /\ output = <<>>
    /\ output_table = <<>>
    /\ out = <<>>
    /\ exit_code = -1
    /\ calls = <<>>
    /\ visits = <<>>

\* Raw images: every length up to MaxBytes; consecutive, repeated and
\* wrapping byte values.
RawImages ==
    {Image(n, start, step) : n \in 0..MaxBytes, start \in {0, 250}, step \in {0, 1, 3}}

InitRaw ==
    /\ NoInvocation
    /\ fpc = "call"
    /\ arg \in {[raw_bytes |-> image] : image \in RawImages}
    /\ ret = <<>>

call_raw_bytes_to_string_pretty ==
    /\ fpc = "call"
    /\ ret' = raw_bytes_to_string_pretty(arg.raw_bytes)
    /\ fpc' = "ret"
    /\ UNCHANGED arg
    /\ UNCHANGED cliVars

NextRaw == call_raw_bytes_to_string_pretty

SpecRaw == InitRaw /\ [][NextRaw]_vars

\* Nested records: mappings of at most MaxDictLen keys whose values are a
\* scalar or a mapping of scalars.
KeySets == {S \in SUBSET Keys : Cardinality(S) <= MaxDictLen}

FlatDicts == UNION {[S -> {Scalar(70)}] : S \in KeySets}

NestedDicts ==
    UNION {[S -> {Scalar(70)} \cup {SubDict(d) : d \in FlatDicts}] : S \in KeySets}

InitDict ==
    /\ NoInvocation
    /\ fpc = "call"
    /\ arg \in {[in_dict |-> d, key_blacklist |-> b] :
                   d \in NestedDicts, b \in SUBSET Keys}
    /\ ret = <<>>

\* As the one-line mode calls it: elemprefix "" and first defaulted to True.
call_dict_to_string_comma_separated ==
    /\ fpc = "call"
    /\ ret' = dict_to_string_comma_separated(arg.in_dict, arg.key_blacklist, <<>>, TRUE)
    /\ fpc' = "ret"
    /\ UNCHANGED arg
    /\ UNCHANGED cliVars

NextDict == call_dict_to_string_comma_separated

SpecDict == InitDict /\ [][NextDict]_vars

----------------------------------------------------------------------------
(* Vocabulary of the properties.                                           *)

\* t occurs in s as a run of consecutive lexemes.
Contains(s, t) ==
    \E a \in 1..(Len(s) - Len(t) + 1) : SubSeq(s, a, a + Len(t) - 1) = t

\* The maximal comma-free, non-empty runs of s.
Segments(s) ==
    {SubSeq(s, p[1], p[2]) : p \in
        {q \in (1..Len(s)) \X (1..Len(s)) :
            /\ q[1] <= q[2]
            /\ \A n \in q[1]..q[2] : s[n] # ","
            /\ (q[1] = 1 \/ s[q[1] - 1] = ",")
            /\ (q[2] = Len(s) \/ s[q[2] + 1] = ",")}}

\* The hardware calls among a sequence of collaborator calls.
HardwareOps ==
    {"get_presence", "get_eeprom_dict", "get_eeprom_raw", "get_low_power_mode",
     "set_low_power_mode", "reset"}

IsHardware(c) == c.op \in HardwareOps

RECURSIVE MadeByVisits(_)
MadeByVisits(vs) == IF vs = <<>> THEN <<>> ELSE Head(vs).made \o MadeByVisits(Tail(vs))

\* The display name of the lane at 1-based position n of logical port l whose
\* list holds count lanes, as the claims state it.
DisplayName(l, n, count) ==
    IF count > 1 THEN l \o <<":", Digits[n + 1], " (ganged)">> ELSE l

----------------------------------------------------------------------------
(* C5: raw hex rendering.                                                  *)

\* Where the k-th token stands when every token is followed by one space, an
\* extra space follows every 8th token that is not a 16th, and wide (a run of
\* lexemes) follows every 16th.
TokenAt(k, wide) ==
    2 * (k - 1) + (((k - 1) \div 8) - ((k - 1) \div 16))
    + Len(wide) * ((k - 1) \div 16) + 1

\* s is exactly that layout of tokens; nothing follows the last token's space.
IsLayout(s, tokens, wide) ==
    LET N == Len(tokens)
    IN  /\ Len(s) = (IF N = 0 THEN 0 ELSE TokenAt(N, wide) + 1)
        /\ \A k \in 1..N :
            LET at == TokenAt(k, wide)
            IN  /\ s[at] = tokens[k]
                /\ s[at + 1] = " "
                /\ (k < N /\ k % 16 = 0) =>
                       SubSeq(s, at + 2, at + 1 + Len(wide)) = wide
                /\ (k < N /\ k % 8 = 0 /\ k % 16 # 0) => s[at + 2] = " "

\* C5, as stated: N tokens in order, each followed by one space, a row break
\* after every 16 tokens and one extra space after the 8th token of each row
\* (only the 8th), separators only when a further token follows.
C5_AsStated ==
    fpc = "ret" => IsLayout(ret, arg.raw_bytes, <<"\n">>)

\* C5, amended: N tokens in order, each followed by one space; one extra space
\* after every 8th token, the 16th of a row included, where it precedes the row
\* break that follows every 16 tokens; separators only when a further token
\* follows.  The 10 tokens 01..0a render as "01 02 03 04 05 06 07 08  09 0a ".
C5_RawLayout ==
    fpc = "ret" =>
        /\ IsLayout(ret, arg.raw_bytes, <<" ", "\n">>)
        /\ SelectSeq(ret, LAMBDA x : x \notin {" ", "\n"}) = arg.raw_bytes
        /\ (arg.raw_bytes = <<"01", "02", "03", "04", "05", "06", "07", "08", "09", "0a">>
                => Join(ret) = "01 02 03 04 05 06 07 08  09 0a ")

\* A rendering with a row break has been produced.
C5_Witness ==
    /\ fpc = "ret"
    /\ Len(arg.raw_bytes) > 16
    /\ Count(ret, "\n") >= 1

\* The spec's example has been rendered.
C5_ExampleRendered ==
    /\ fpc = "ret"
    /\ arg.raw_bytes = <<"01", "02", "03", "04", "05", "06", "07", "08", "09", "0a">>

----------------------------------------------------------------------------
(* C6: the one-line rendering and the exclusion set.                       *)

\* The fields a record may show under an exclusion set: those whose key, and
\* whose enclosing key if any, are not excluded; named as the rendering names
\* them.
RECURSIVE AllowedFields(_, _, _)
AllowedFields(d, excluded, prefix) ==
    UNION {IF d[k].isdict
           THEN AllowedFields(d[k].sub, excluded, <<k, ".">>)
           ELSE {prefix \o <<k, ":", str(d[k].val)>>} :
           k \in (DOMAIN d) \ excluded}

\* C6: the one-line rendering holds no field whose key is excluded, at the top
\* level or nested, and no field under an excluded key: no excluded key occurs
\* in it, and every field of it is a field the exclusion set allows.
C6_NoExcludedField ==
    fpc = "ret" =>
        /\ \A n \in 1..Len(ret) : ret[n] \notin arg.key_blacklist
        /\ Segments(ret) \subseteq AllowedFields(arg.in_dict, arg.key_blacklist, <<>>)

\* A record with an excluded key at the top level and another nested below a
\* key that is shown has been rendered to something.
C6_Witness ==
    /\ fpc = "ret"
    /\ ret # <<>>
    /\ \E k \in DOMAIN arg.in_dict :
        /\ arg.in_dict[k].isdict
        /\ k \notin arg.key_blacklist
        /\ (DOMAIN arg.in_dict[k].sub) \cap arg.key_blacklist # {}
    /\ (DOMAIN arg.in_dict) \cap arg.key_blacklist # {}

----------------------------------------------------------------------------
(* C1: a rejected port argument.                                           *)

\* C1: in every command that takes a port argument, when the validity check
\* rejects the argument the invocation prints the invalid-port message and the
\* list of valid ports and exits with code 4; the check is the only collaborator
\* call made: the port is not resolved and no lane is visited.
C1_InvalidPortExits ==
    \A k \in 1..Len(calls) :
        (calls[k].op = "is_valid_sfputil_port" /\ calls[k].res = "0") =>
            /\ Len(calls) = 1
            /\ calls[k].name = cmd.port
            /\ exit_code = 4
            /\ pc = "exit"
            /\ out = <<"Error: invalid port '">> \o cmd.port
                     \o <<"'\n", "\n", "Valid values for port: ">>
                     \o ListRepr(porttab.logical) \o <<"\n", "\n">>
            /\ physical_port_list = <<>>
            /\ visits = <<>>

\* show presence -p BadPort99 has been rejected.
C1_Witness ==
    /\ cmd.name = "show presence"
    /\ cmd.port = BadPort99
    /\ Len(calls) = 1
    /\ calls[1].res = "0"
    /\ exit_code = 4

----------------------------------------------------------------------------
(* C2: the set-state commands and NotImplemented.                          *)

SetStateOps == {"set_low_power_mode", "reset"}

SetStateCalls == SelectSeq(calls, LAMBDA c : c.op \in SetStateOps)

\* C2: in lpmode on, lpmode off and reset the lanes are processed in resolver
\* order, and the first lane whose call signals NotImplemented ends the
\* invocation: the message is printed, the exit code is 5 and that call is the
\* last call made.
C2_SetStateAborts ==
    cmd.name \in {"lpmode on", "lpmode off", "reset"} =>
        /\ Len(SetStateCalls) <= Len(physical_port_list)
        /\ \A k \in 1..Len(SetStateCalls) :
            /\ SetStateCalls[k].port = physical_port_list[k]
            /\ SetStateCalls[k].op =
                   (IF cmd.name = "reset" THEN "reset" ELSE "set_low_power_mode")
            /\ SetStateCalls[k].res = "NotImplementedError" =>
                /\ k = Len(SetStateCalls)
                /\ calls[Len(calls)] = SetStateCalls[k]
                /\ exit_code = 5
                /\ pc = "exit"
                /\ Len(out) >= 2
                /\ SubSeq(out, Len(out) - 1, Len(out)) =
                       <<"This functionality is currently not implemented for this platform",
                         "\n">>

\* reset on a three-lane port: the second lane signalled NotImplemented and the
\* third was never tried.
C2_Witness ==
    /\ cmd.name = "reset"
    /\ Len(physical_port_list) = 3
    /\ Len(SetStateCalls) = 2
    /\ SetStateCalls[1].res = "True"
    /\ SetStateCalls[2].res = "NotImplementedError"
    /\ exit_code = 5

----------------------------------------------------------------------------
(* C3: NotImplemented from any hardware call.                              *)

\* C3: whenever a hardware call made by any command signals NotImplemented, the
\* not-implemented message is printed and the process exits with code 5.
C3_AsStated ==
    \A k \in 1..Len(calls) :
        (IsHardware(calls[k]) /\ calls[k].res = "NotImplementedError") =>
            /\ exit_code = 5
            /\ Contains(out,
                   <<"This functionality is currently not implemented for this platform",
                     "\n">>)

----------------------------------------------------------------------------
(* C4: display names.                                                      *)

\* C4: the lane at 1-based position n of logical port L's list is displayed as
\* "L:n (ganged)" when the list holds more than one lane and as L when it holds
\* one; n is the position, not the physical index, and in one-line mode it
\* advances over lanes that are not detected.
C4_DisplayName ==
    /\ \A k \in 1..Len(visits) :
        LET v == visits[k]
            name == DisplayName(v.logical, v.pos, v.count)
        IN  /\ v.port_name # <<>> => v.port_name = name
            /\ v.fn # "oneline" =>
                /\ v.port_name # <<>>
                /\ v.block # <<>> => Contains(v.block, name)
            /\ (v.fn = "oneline" /\ Contains(v.block, <<"port:">>)) =>
                Contains(v.block, <<"port:">> \o name \o <<",">>)
    /\ \A k \in 1..Len(output_table) :
        output_table[k].port_name =
            DisplayName(visits[k].logical, visits[k].pos, visits[k].count)

\* One-line mode on ganged Ethernet0: lane 1 is not detected and lane 2, whose
\* physical index is not 2, is shown as Ethernet0:2 (ganged).
C4_Witness ==
    \E k \in 2..Len(visits) :
        /\ visits[k].fn = "oneline"
        /\ visits[k].pos = 2
        /\ visits[k].physical # 2
        /\ visits[k - 1].block = <<"\n">>
        /\ Join(visits[k].port_name) = "Ethernet0:2 (ganged)"
        /\ Contains(visits[k].block, <<"port:">> \o visits[k].port_name)

----------------------------------------------------------------------------
(* C7: one line per logical port in one-line mode.                         *)

\* C7: in one-line mode the text returned for one logical port is exactly one
\* newline-terminated line whatever the number of lanes, and a lane whose
\* EEPROM is not detected contributes nothing.
C7_AsStated ==
    /\ (pc = "oneline_lanes" /\ lane_idx > Len(physical_port_list)) =>
        /\ Count(result, "\n") = 1
        /\ result[Len(result)] = "\n"
    /\ \A k \in 1..Len(visits) :
        (visits[k].fn = "oneline" /\ visits[k].made[1].res = "False") =>
            visits[k].block = <<>>

----------------------------------------------------------------------------
(* C8: presence before the data fetch.                                     *)

Detected(block) ==
    \E n \in 1..Len(block) : block[n] \in {": SFP EEPROM detected", "port:"}

\* C8: in the three show eeprom modes every lane visit makes one get_presence
\* call on the lane and then, only when it answered True, one data fetch on the
\* same lane; a lane whose presence check is False has no fetch and is not
\* rendered as detected.  Every hardware call belongs to a visit.
C8_PresenceBeforeFetch ==
    /\ SelectSeq(calls, IsHardware) = MadeByVisits(visits)
    /\ \A k \in 1..Len(visits) :
        LET v == visits[k]
        IN  v.fn \in {"pretty", "oneline", "raw"} =>
            /\ Len(v.made) \in {1, 2}
            /\ v.made[1].op = "get_presence"
            /\ v.made[1].port = v.physical
            /\ Len(v.made) = 2 =>
                /\ v.made[1].res = "True"
                /\ v.made[2].op =
                       (IF v.fn = "raw" THEN "get_eeprom_raw" ELSE "get_eeprom_dict")
                /\ v.made[2].port = v.physical
            /\ v.made[1].res = "False" =>
                /\ Len(v.made) = 1
                /\ ~Detected(v.block)
            /\ Detected(v.block) =>
                /\ Len(v.made) = 2
                /\ v.made[2].res = "value"

\* Raw mode: one lane answered False and was not fetched, another answered True
\* and its image was fetched and rendered.
C8_Witness ==
    \E j, k \in 1..Len(visits) :
        /\ visits[j].fn = "raw"
        /\ visits[j].made[1].res = "False"
        /\ Len(visits[j].made) = 1
        /\ visits[k].fn = "raw"
        /\ Len(visits[k].made) = 2
        /\ Detected(visits[k].block)

----------------------------------------------------------------------------
(* C9: commas of the one-line mode.                                        *)

\* The part of a detected lane's one-line text after "port:<name>,", without
\* the newline that ends it.
FieldsPart(v) ==
    SubSeq(v.block, Len(v.port_name) + 3, Len(v.block) - 1)

\* C9: in the fields emitted for a lane every two adjacent fields (each field
\* holds one ":") are separated by exactly one comma.
C9_AsStated ==
    \A k \in 1..Len(visits) :
        (visits[k].fn = "oneline" /\ Detected(visits[k].block)) =>
            LET f == FieldsPart(visits[k])
            IN  \A a, b \in 1..Len(f) :
                    (/\ a < b
                     /\ f[a] = ":"
                     /\ f[b] = ":"
                     /\ \A n \in (a + 1)..(b - 1) : f[n] # ":")
                    => Count(SubSeq(f, a, b), ",") = 1

----------------------------------------------------------------------------
(* C10: the multi-line mode stops after the first lane; raw mode does not. *)

RECURSIVE BlocksOf(_)
BlocksOf(vs) == IF vs = <<>> THEN <<>> ELSE Head(vs).block \o BlocksOf(Tail(vs))

\* The status line a block opens with.
OpensWithStatus(v) ==
    LET name == DisplayName(v.logical, v.pos, v.count)
        n == Len(name)
    IN  /\ Len(v.block) >= n + 3
        /\ SubSeq(v.block, 1, n) = name
        /\ v.block[n + 1] \in {": SFP EEPROM detected", ": SFP EEPROM not detected"}
        /\ v.block[n + 2] = "\n"
        /\ v.block[Len(v.block)] = "\n"

\* C10: in multi-line mode only the first lane of a logical port is processed:
\* every visit is of position 1, no two visits are of the same port, every
\* get_presence / get_eeprom_dict call belongs to such a visit, and the text
\* returned is that lane's block alone (status line, fields, blank line).  Raw
\* mode returns one block per lane, for all lanes, in resolver order.
C10_PrettyFirstLaneOnly ==
    /\ (cmd.name = "show eeprom" /\ ~cmd.raw /\ ~cmd.oneline) =>
        /\ \A k \in 1..Len(visits) :
            /\ visits[k].fn = "pretty"
            /\ visits[k].pos = 1
            /\ \A j \in 1..(k - 1) : visits[j].logical # visits[k].logical
        /\ SelectSeq(calls, IsHardware) = MadeByVisits(visits)
        /\ (pc = "eeprom_loop" /\ lane_idx = 2) =>
            /\ result = visits[Len(visits)].block
            /\ OpensWithStatus(visits[Len(visits)])
            /\ Len(output) >= Len(result)
            /\ SubSeq(output, Len(output) - Len(result) + 1, Len(output)) = result
    /\ (pc = "raw_lanes" /\ lane_idx > Len(physical_port_list)) =>
        LET N == Len(physical_port_list)
            base == Len(visits) - N
        IN  /\ base >= 0
            /\ \A k \in 1..N :
                /\ visits[base + k].fn = "raw"
                /\ visits[base + k].logical = logical_port_list[port_idx]
                /\ visits[base + k].pos = k
                /\ visits[base + k].physical = physical_port_list[k]
                /\ OpensWithStatus(visits[base + k])
            /\ result = BlocksOf(SubSeq(visits, base + 1, Len(visits)))

\* Multi-line mode has finished on a port of three lanes after one visit.
C10_Witness ==
    /\ cmd.name = "show eeprom" /\ ~cmd.raw /\ ~cmd.oneline
    /\ cmd.port = Ethernet0
    /\ pc = "done"
    /\ Len(physical_port_list) = 3
    /\ Len(visits) = 1
    /\ SelectSeq(calls, IsHardware) = visits[1].made
    /\ Contains(out, visits[1].block)

\* Raw mode is about to return the blocks of all three lanes of a port.
C10_RawAllLanes ==
    /\ pc = "raw_lanes"
    /\ lane_idx > Len(physical_port_list)
    /\ Len(physical_port_list) = 3
    /\ Len(visits) >= 3

----------------------------------------------------------------------------
(* C11: the one-line rendering omits only what is excluded.                *)

\* How often field t stands in s as a whole comma-delimited field.
Occurrences(s, t) ==
    Cardinality({a \in 1..(Len(s) - Len(t) + 1) :
        /\ SubSeq(s, a, a + Len(t) - 1) = t
        /\ (a = 1 \/ s[a - 1] = ",")
        /\ (a + Len(t) - 1 = Len(s) \/ s[a + Len(t)] = ",")})

\* C11: every scalar field that is neither keyed by an excluded key nor located
\* under one appears exactly once in the one-line rendering; in particular an
\* excluded key does not suppress the siblings that sort after it.
C11_AsStated ==
    fpc = "ret" =>
        \A f \in AllowedFields(arg.in_dict, arg.key_blacklist, <<>>) :
            Occurrences(ret, f) = 1

====
